---- MODULE Spec2Model ----
(***************************************************************************)
(* Model of ietfdata/tools/participants.py: the Participant record, the    *)
(* ParticipantDB resolver (person_with_identifier, identifies_same_person, *)
(* _update_refs) and its persistence (save, and the load of __init__).     *)
(*                                                                         *)
(* Participant objects live in a heap (a sequence); a Participant is       *)
(* referred to by its position in the heap, which stands for the object    *)
(* identity that Python's set and == use for this class.                   *)
(***************************************************************************)
EXTENDS Integers, Sequences, FiniteSets, TLC

VARIABLES db, op, proc

vars == <<db, op, proc>>

----------------------------------------------------------------------------
(* Bounds of the model *)

\* cap on the counter self.pid: save runs only while the ids it hands out stay
\* within it
MaxPid == 3

----------------------------------------------------------------------------
(* Strings: stable ids are "PID:" followed by the zero-padded counter *)

None == "None"

RECURSIVE ZeroPad(_, _)
\* the format spec 06 of f"{self.pid:06}": pad with zeros to a minimum width
ZeroPad(s, width) == IF Len(s) >= width THEN s ELSE ZeroPad("0" \o s, width)

\* f"PID:{self.pid:06}"
FormatPid(n) == "PID:" \o ZeroPad(ToString(n), 6)

DigitOf(c) == CHOOSE d \in 0..9 : ToString(d) = c

RECURSIVE ParseInt(_)
\* int(s) of a string of decimal digits
ParseInt(s) ==
    IF Len(s) = 0 THEN 0
    ELSE 10 * ParseInt(SubSeq(s, 1, Len(s) - 1)) + DigitOf(SubSeq(s, Len(s), Len(s)))

\* int(pid[4:])
ParsePid(s) == ParseInt(SubSeq(s, 5, Len(s)))

\* code points of the characters of a stable id, for the ordering of sort_keys
CharCode(c) ==
    CASE c = ":" -> 58
      [] c = "D" -> 68
      [] c = "I" -> 73
      [] c = "P" -> 80
      [] OTHER   -> 48 + DigitOf(c)

RECURSIVE StrLess(_, _)
\* s < t in the lexicographic order json.dump(sort_keys=True) sorts keys by
StrLess(s, t) ==
    IF Len(t) = 0 THEN FALSE
    ELSE IF Len(s) = 0 THEN TRUE
    ELSE LET cs == CharCode(SubSeq(s, 1, 1))
             ct == CharCode(SubSeq(t, 1, 1))
         IN  IF cs # ct THEN cs < ct
             ELSE StrLess(SubSeq(s, 2, Len(s)), SubSeq(t, 2, Len(t)))

RECURSIVE SortedKeys(_)
\* the keys of a saved record in the order they are written and read back
SortedKeys(S) ==
    IF S = {} THEN <<>>
    ELSE LET m == CHOOSE x \in S : \A y \in S \ {x} : StrLess(x, y)
         IN  <<m>> \o SortedKeys(S \ {m})

----------------------------------------------------------------------------
(* Python dicts as functions *)

EmptyDict == [k \in {} |-> <<>>]

Put(d, k, v) == [x \in (DOMAIN d) \cup {k} |-> IF x = k THEN v ELSE d[x]]

InList(x, l) == \E i \in 1..Len(l) : l[i] = x

----------------------------------------------------------------------------
(* class Participant *)

\* Participant.__init__
NewParticipant(person_id) == [person_id |-> person_id, identifiers |-> EmptyDict]

\* Participant.add_identifier
add_identifier(p, ident_type, ident_value) ==
    IF ident_type \notin DOMAIN p.identifiers
    THEN [p EXCEPT !.identifiers = Put(@, ident_type, <<ident_value>>)]
    ELSE IF ~InList(ident_value, p.identifiers[ident_type])
         THEN [p EXCEPT !.identifiers[ident_type] = Append(@, ident_value)]
         ELSE p

RECURSIVE SumLens(_, _)
SumLens(d, keys) ==
    IF keys = {} THEN 0
    ELSE LET k == CHOOSE x \in keys : TRUE
         IN  Len(d[k]) + SumLens(d, keys \ {k})

\* Participant.num_idents
num_idents(p) == SumLens(p.identifiers, DOMAIN p.identifiers)

RECURSIVE AddValues(_, _, _)
\* the inner loop of merge_into for one identifier type
AddValues(p, ident_type, values) ==
    IF values = <<>> THEN p
    ELSE AddValues(add_identifier(p, ident_type, Head(values)), ident_type, Tail(values))

RECURSIVE AddAll(_, _, _)
\* the outer loop of merge_into; the types are independent of one another
AddAll(p, d, keys) ==
    IF keys = {} THEN p
    ELSE LET k == CHOOSE x \in keys : TRUE
         IN  AddAll(AddValues(p, k, d[k]), d, keys \ {k})

\* merge_into that empties self without copying its identifiers into other
merge_into_lossy(heap, self, other) ==
    [heap EXCEPT ![self] = [@ EXCEPT !.identifiers = EmptyDict]]

\* merge_into without the final self.identifiers = {}
merge_into_keep(heap, self, other) ==
    [heap EXCEPT ![other] = AddAll(@, heap[self].identifiers, DOMAIN heap[self].identifiers)]

\* Participant.merge_into, on the heap: self and other are heap positions
merge_into(heap, self, other) ==
    [heap EXCEPT ![other] = AddAll(@, heap[self].identifiers, DOMAIN heap[self].identifiers),
                 ![self]  = [@ EXCEPT !.identifiers = EmptyDict]]

\* the (type, value) pairs a Participant holds
IdentSet(p) ==
    UNION { { <<t, p.identifiers[t][i]>> : i \in 1..Len(p.identifiers[t]) } :
            t \in DOMAIN p.identifiers }

----------------------------------------------------------------------------
(* class ParticipantDB *)

\* ParticipantDB.__init__ with path None
EmptyDB == [pid |-> 0, idents |-> EmptyDict, people |-> {}, heap |-> <<>>, error |-> None]

Known(d, ident_type, ident_value) ==
    ident_type \in DOMAIN d.idents /\ ident_value \in DOMAIN d.idents[ident_type]

\* self.idents[ident_type][ident_value] = person
SetIdent(idents, ident_type, ident_value, person) ==
    Put(idents, ident_type,
        Put(IF ident_type \in DOMAIN idents THEN idents[ident_type] ELSE EmptyDict,
            ident_value, person))

\* _update_refs with the re-pointing left out
update_refs_skip(idents, from_person, to_person) == idents

\* _update_refs that stops after the first entry it re-points
update_refs_first(idents, from_person, to_person) ==
    LET hits  == { tv \in UNION { { <<t, v>> : v \in DOMAIN idents[t] } : t \in DOMAIN idents } :
                     idents[tv[1]][tv[2]] = from_person }
        first == IF hits = {} THEN {} ELSE {CHOOSE tv \in hits : TRUE}
    IN  [t \in DOMAIN idents |->
            [v \in DOMAIN idents[t] |->
                IF <<t, v>> \in first THEN to_person ELSE idents[t][v]]]

\* ParticipantDB._update_refs
update_refs(idents, from_person, to_person) ==
    [t \in DOMAIN idents |->
        [v \in DOMAIN idents[t] |->
            IF idents[t][v] = from_person THEN to_person ELSE idents[t][v]]]

\* person_with_identifier whose else branch (the type is known) lacks the test
\* of line 131 and always creates a Participant
person_with_identifier_always_new(d, ident_type, ident_value) ==
    LET person == Len(d.heap) + 1
    IN  [db  |-> [d EXCEPT
                    !.heap   = Append(@, add_identifier(NewParticipant(None),
                                                        ident_type, ident_value)),
                    !.people = @ \cup {person},
                    !.idents = SetIdent(@, ident_type, ident_value, person)],
         ret |-> person]

\* ParticipantDB.person_with_identifier: the resolver after the call and the
\* Participant returned
person_with_identifier(d, ident_type, ident_value) ==
    IF ~Known(d, ident_type, ident_value)
    THEN LET person == Len(d.heap) + 1
         IN  [db  |-> [d EXCEPT
                         !.heap   = Append(@, add_identifier(NewParticipant(None),
                                                             ident_type, ident_value)),
                         !.people = @ \cup {person},
                         !.idents = SetIdent(@, ident_type, ident_value, person)],
              ret |-> person]
    ELSE [db |-> d, ret |-> d.idents[ident_type][ident_value]]

\* self.people.remove(person) left out
people_remove_skip(d, person) == d

\* self.people.remove(person): KeyError when the person is not in the set
people_remove(d, person) ==
    IF person \in d.people
    THEN [d EXCEPT !.people = @ \ {person}]
    ELSE [d EXCEPT !.error = "KeyError"]

\* merge_into followed by _update_refs, as at each of the five merge sites
MergeRefs(d, from_person, to_person) ==
    [d EXCEPT !.heap   = merge_into(@, from_person, to_person),
              !.idents = update_refs(@, from_person, to_person)]

\* from_person.add_identifier("replaced_by", to_person.person_id)
Tombstone(d, from_person, to_person) ==
    [d EXCEPT !.heap[from_person] =
                  add_identifier(@, "replaced_by", d.heap[to_person].person_id)]

\* lines 196-203 followed by self.people.remove, as in the other branches
MergeBothStable_remove(d, person1, person2) ==
    IF num_idents(d.heap[person2]) > num_idents(d.heap[person1])
    THEN people_remove(Tombstone(MergeRefs(d, person2, person1), person2, person1), person2)
    ELSE people_remove(Tombstone(MergeRefs(d, person1, person2), person1, person2), person1)

\* lines 196-203: both Participants have a person_id
MergeBothStable(d, person1, person2) ==
    IF num_idents(d.heap[person2]) > num_idents(d.heap[person1])
    THEN Tombstone(MergeRefs(d, person2, person1), person2, person1)
    ELSE Tombstone(MergeRefs(d, person1, person2), person1, person2)

\* lines 180-205 with the branch of lines 188-191 merging person2 into person1,
\* as the two branches above it do
MergePeople_first_wins(d, person1, person2) ==
    LET id1 == d.heap[person1].person_id
        id2 == d.heap[person2].person_id
    IN  CASE id1 = None /\ id2 = None -> people_remove(MergeRefs(d, person2, person1), person2)
          [] id1 # None /\ id2 = None -> people_remove(MergeRefs(d, person2, person1), person2)
          [] id1 = None /\ id2 # None -> people_remove(MergeRefs(d, person2, person1), person2)
          [] id1 # None /\ id2 # None -> MergeBothStable(d, person1, person2)
          [] OTHER -> [d EXCEPT !.error = "This cannot happen (1)"]

\* lines 180-205 with the branch of lines 180-183 merging person1 into person2
MergePeople_second_wins(d, person1, person2) ==
    LET id1 == d.heap[person1].person_id
        id2 == d.heap[person2].person_id
    IN  CASE id1 = None /\ id2 = None -> people_remove(MergeRefs(d, person1, person2), person1)
          [] id1 # None /\ id2 = None -> people_remove(MergeRefs(d, person2, person1), person2)
          [] id1 = None /\ id2 # None -> people_remove(MergeRefs(d, person1, person2), person1)
          [] id1 # None /\ id2 # None -> MergeBothStable(d, person1, person2)
          [] OTHER -> [d EXCEPT !.error = "This cannot happen (1)"]

\* lines 180-205: the two identifiers belong to different Participants
MergePeople(d, person1, person2) ==
    LET id1 == d.heap[person1].person_id
        id2 == d.heap[person2].person_id
    IN  CASE id1 = None /\ id2 = None -> people_remove(MergeRefs(d, person2, person1), person2)
          [] id1 # None /\ id2 = None -> people_remove(MergeRefs(d, person2, person1), person2)
          [] id1 = None /\ id2 # None -> people_remove(MergeRefs(d, person1, person2), person1)
          [] id1 # None /\ id2 # None -> MergeBothStable(d, person1, person2)
          [] OTHER -> [d EXCEPT !.error = "This cannot happen (1)"]

\* lines 148-151: make sure both types have a (possibly empty) table
EnsureTypes(d, ident_type1, ident_type2) ==
    LET i1 == IF ident_type1 \in DOMAIN d.idents THEN d.idents
              ELSE Put(d.idents, ident_type1, EmptyDict)
        i2 == IF ident_type2 \in DOMAIN i1 THEN i1
              ELSE Put(i1, ident_type2, EmptyDict)
    IN  [d EXCEPT !.idents = i2]

RECURSIVE identifies_same_person(_, _, _, _, _)
\* ParticipantDB.identifies_same_person
identifies_same_person(d0, ident_type1, ident_value1, ident_type2, ident_value2) ==
    LET d  == EnsureTypes(d0, ident_type1, ident_type2)
        k1 == ident_value1 \in DOMAIN d.idents[ident_type1]
        k2 == ident_value2 \in DOMAIN d.idents[ident_type2]
    IN  CASE ~k1 /\ ~k2 ->
               identifies_same_person(
                   person_with_identifier(d, ident_type1, ident_value1).db,
                   ident_type1, ident_value1, ident_type2, ident_value2)
          [] k1 /\ ~k2 ->
               LET person == d.idents[ident_type1][ident_value1]
               IN  [d EXCEPT !.heap[person] = add_identifier(@, ident_type2, ident_value2),
                             !.idents = SetIdent(@, ident_type2, ident_value2, person)]
          [] ~k1 /\ k2 ->
               LET person == d.idents[ident_type2][ident_value2]
               IN  [d EXCEPT !.heap[person] = add_identifier(@, ident_type1, ident_value1),
                             !.idents = SetIdent(@, ident_type1, ident_value1, person)]
          [] k1 /\ k2 ->
               LET person1 == d.idents[ident_type1][ident_value1]
                   person2 == d.idents[ident_type2][ident_value2]
               IN  IF person1 = person2 THEN d ELSE MergePeople(d, person1, person2)
          [] OTHER -> [d EXCEPT !.error = "This cannot happen (2)"]

RECURSIVE SaveLoop_no_count(_, _, _)
\* the loop of save without self.pid += 1
SaveLoop_no_count(d, order, people) ==
    IF order = <<>> THEN [db |-> d, people |-> people]
    ELSE LET person == Head(order)
             d1 == IF d.heap[person].person_id = None
                   THEN [d EXCEPT !.heap[person].person_id = FormatPid(d.pid + 1)]
                   ELSE d
         IN  SaveLoop_no_count(d1, Tail(order),
                      Put(people, d1.heap[person].person_id, d1.heap[person].identifiers))

RECURSIVE SaveLoop(_, _, _)
\* the loop of save over self.people, visited in the order given
SaveLoop(d, order, people) ==
    IF order = <<>> THEN [db |-> d, people |-> people]
    ELSE LET person == Head(order)
             d1 == IF d.heap[person].person_id = None
                   THEN [d EXCEPT !.pid = @ + 1,
                                  !.heap[person].person_id = FormatPid(d.pid + 1)]
                   ELSE d
         IN  SaveLoop(d1, Tail(order),
                      Put(people, d1.heap[person].person_id, d1.heap[person].identifiers))

\* ParticipantDB.save: the resolver after the call and the record written;
\* order is the iteration order of the set self.people
save(d, order) == SaveLoop(d, order, EmptyDict)

RECURSIVE LoadValues(_, _, _, _)
\* lines 96-100 for one identifier type of one saved person
LoadValues(d, person, ident_type, values) ==
    IF values = <<>> THEN d
    ELSE LoadValues(
             [d EXCEPT !.heap[person] = add_identifier(@, ident_type, Head(values)),
                       !.idents = SetIdent(@, ident_type, Head(values), person)],
             person, ident_type, Tail(values))

RECURSIVE LoadTypes(_, _, _, _)
\* lines 95-100 for one saved person; the types are independent of one another
LoadTypes(d, person, identifiers, keys) ==
    IF keys = {} THEN d
    ELSE LET k == CHOOSE x \in keys : TRUE
         IN  LoadTypes(LoadValues(d, person, k, identifiers[k]), person, identifiers,
                       keys \ {k})

RECURSIVE LoadLoop_no_pid(_, _, _)
\* lines 92-100 without lines 101-103: self.pid stays 0
LoadLoop_no_pid(d, saved_data, pids) ==
    IF pids = <<>> THEN d
    ELSE LET pid     == Head(pids)
             person  == Len(d.heap) + 1
             d1      == [d EXCEPT !.heap = Append(@, NewParticipant(pid)),
                                  !.people = @ \cup {person}]
             d2      == LoadTypes(d1, person, saved_data[pid], DOMAIN saved_data[pid])
         IN  LoadLoop_no_pid(d2, saved_data, Tail(pids))

RECURSIVE LoadLoop(_, _, _)
\* lines 92-103: one Participant per key of the saved record, in file order
LoadLoop(d, saved_data, pids) ==
    IF pids = <<>> THEN d
    ELSE LET pid     == Head(pids)
             person  == Len(d.heap) + 1
             d1      == [d EXCEPT !.heap = Append(@, NewParticipant(pid)),
                                  !.people = @ \cup {person}]
             d2      == LoadTypes(d1, person, saved_data[pid], DOMAIN saved_data[pid])
             pid_int == ParsePid(pid)
             d3      == IF pid_int > d2.pid THEN [d2 EXCEPT !.pid = pid_int] ELSE d2
         IN  LoadLoop(d3, saved_data, Tail(pids))

\* ParticipantDB.__init__ with the path of a saved record
load(saved_data) == LoadLoop(EmptyDB, saved_data, SortedKeys(DOMAIN saved_data))

----------------------------------------------------------------------------
(* Inputs *)

\* the identifiers callers pass: two e-mail addresses, a name whose value is
\* also the value of an e-mail address, and a replaced_by value that is also a
\* stable id
Idents ==
    { <<"email", "e1">>, <<"email", "e2">>, <<"name", "e1">>,
      <<"replaced_by", FormatPid(1)>> }

RECURSIVE Perms(_)
\* the orders in which a set can be iterated
Perms(S) ==
    IF S = {} THEN {<<>>}
    ELSE UNION { { <<x>> \o p : p \in Perms(S \ {x}) } : x \in S }

\* the Participants of self.people that save will give a person_id
Unassigned(d) == { p \in d.people : d.heap[p].person_id = None }

\* the record on disk once save has run and nothing has changed since: every
\* Participant has a person_id, so the iteration order no longer matters
SavedRecord(d) == save(d, CHOOSE o \in Perms(d.people) : TRUE).people

----------------------------------------------------------------------------
(* The state machine of a ParticipantDB in use *)

\* the resolver is used as a library: no command line, no exit status
NoProcess == [argv |-> <<>>, old |-> [exists |-> FALSE, data |-> EmptyDict],
              pc |-> "library", status |-> 0]

Init ==
    /\ db = EmptyDB
    /\ op = "init"
    /\ proc = NoProcess

\* pdb.person_with_identifier(t, v)
Resolve(id) ==
    /\ db.error = None
    /\ db' = person_with_identifier(db, id[1], id[2]).db
    /\ op' = "resolve"
    /\ UNCHANGED proc

\* pdb.identifies_same_person(t1, v1, t2, v2)
AssertSame(id1, id2) ==
    /\ db.error = None
    /\ db' = identifies_same_person(db, id1[1], id1[2], id2[1], id2[2])
    /\ op' = "assert"
    /\ UNCHANGED proc

\* pdb.save(new_path)
Save(order) ==
    /\ db.error = None
    /\ db.pid + Cardinality(Unassigned(db)) <= MaxPid
    /\ db' = save(db, order).db
    /\ op' = "save"
    /\ UNCHANGED proc

\* the next run: pdb = ParticipantDB(old_path), old_path being the record
\* the previous run has just saved
Load ==
    /\ op = "save"
    /\ db' = load(SavedRecord(db))
    /\ op' = "load"
    /\ UNCHANGED proc

Next ==
    \/ \E id \in Idents : Resolve(id)
    \/ \E id1, id2 \in Idents : AssertSame(id1, id2)
    \/ \E order \in Perms(db.people) : Save(order)
    \/ Load

Spec == Init /\ [][Next]_vars

----------------------------------------------------------------------------
(* The program: python3 -m ietfdata.tools.participants [old.json] new.json *)

\* sys.exit(1) of the usage message
UsageStatus == 1
\* sys.exit(2) of "refusing to overwrite input file"
SamePathStatus == 2
\* the exit status of the interpreter when an exception is not caught
UncaughtStatus == 1
\* the exit status when the program runs to its end
EndStatus == 0

RECURSIVE Path(_)
\* Path(s), compared with ==: pathlib drops "." components, so "./x" is "x"
Path(s) ==
    IF Len(s) > 2 /\ SubSeq(s, 1, 2) = "./" THEN Path(SubSeq(s, 3, Len(s))) ELSE s

\* the command-line words after the program name
PathArgs == {"a.json", "./a.json", "b.json"}

\* sys.argv
Argvs ==
    {<<"participants">>}
    \cup { <<"participants", x>> : x \in PathArgs }
    \cup { <<"participants", x, y>> : x \in PathArgs, y \in PathArgs }
    \cup {<<"participants", "a.json", "b.json", "b.json">>}

\* what old.json may hold: nothing (the file is missing) or a saved record
OldFiles ==
    { [exists |-> FALSE, data |-> EmptyDict],
      [exists |-> TRUE,
       data |-> Put(Put(EmptyDict, FormatPid(1), [email |-> <<"e1">>]),
                    FormatPid(2), [email |-> <<"e2">>, name |-> <<"e1">>])] }

Exited(status) == [pc |-> "exited", status |-> status, db |-> EmptyDB, loaded |-> FALSE]

\* lines 244 on: pdb = ParticipantDB(old_path); open() raises when the file
\* is missing and nothing catches it
Construct(old_given, old) ==
    IF ~old_given THEN [pc |-> "running", status |-> 0, db |-> EmptyDB, loaded |-> FALSE]
    ELSE IF ~old.exists THEN Exited(UncaughtStatus)
    ELSE [pc |-> "running", status |-> 0, db |-> load(old.data), loaded |-> TRUE]

\* lines 224-244 with the test of lines 239-242 left out
main_start_no_check(argv, old) ==
    IF Len(argv) = 2 THEN Construct(FALSE, old)
    ELSE IF Len(argv) = 3 THEN Construct(TRUE, old)
    ELSE Exited(UsageStatus)

\* lines 224-244: the command line is read, the same path for input and
\* output is refused, the resolver is constructed
main_start(argv, old) ==
    IF Len(argv) = 2 THEN Construct(FALSE, old)
    ELSE IF Len(argv) = 3
         THEN IF Path(argv[2]) = Path(argv[3])
              THEN Exited(SamePathStatus)
              ELSE Construct(TRUE, old)
    ELSE Exited(UsageStatus)

MainInit ==
    /\ db = EmptyDB
    /\ op = "init"
    /\ \E argv \in Argvs, old \in OldFiles :
          proc = [argv |-> argv, old |-> old, pc |-> "start", status |-> 0]

\* lines 224-244
MainStart ==
    /\ proc.pc = "start"
    /\ LET r == main_start(proc.argv, proc.old)
       IN  /\ proc' = [proc EXCEPT !.pc = r.pc, !.status = r.status]
           /\ db' = r.db
           /\ op' = IF r.loaded THEN "load" ELSE op

\* an exception raised by a call of the resolver ends the program
AfterCall(d) ==
    IF d.error = None THEN proc
    ELSE [proc EXCEPT !.pc = "exited", !.status = UncaughtStatus]

\* lines 249 and 284: pdb.person_with_identifier(...)
MainResolve(id) ==
    /\ proc.pc = "running"
    /\ db' = person_with_identifier(db, id[1], id[2]).db
    /\ op' = "resolve"
    /\ proc' = AfterCall(db')

\* lines 250-271 and 294: pdb.identifies_same_person(...)
MainAssert(id1, id2) ==
    /\ proc.pc = "running"
    /\ db' = identifies_same_person(db, id1[1], id1[2], id2[1], id2[2])
    /\ op' = "assert"
    /\ proc' = AfterCall(db')

\* lines 296-297: pdb.save(new_path), and the program ends
MainSave(order) ==
    /\ proc.pc = "running"
    /\ db' = save(db, order).db
    /\ op' = "save"
    /\ proc' = [proc EXCEPT !.pc = "exited", !.status = EndStatus]

MainNext ==
    \/ MainStart
    \/ \E id \in Idents : MainResolve(id)
    \/ \E id1, id2 \in Idents : MainAssert(id1, id2)
    \/ \E order \in Perms(db.people) : MainSave(order)

MainSpec == MainInit /\ [][MainNext]_vars

----------------------------------------------------------------------------
(* Vocabulary of the properties *)

\* the (type, value) keys of the index self.idents
Keys(d) == UNION { { <<t, v>> : v \in DOMAIN d.idents[t] } : t \in DOMAIN d.idents }

\* the Participant the index gives for a key
Owner(d, id) == d.idents[id[1]][id[2]]

KnownId(d, id) == Known(d, id[1], id[2])

\* the resolver after identifies_same_person(id1, id2)
ISP(d, id1, id2) == identifies_same_person(d, id1[1], id1[2], id2[1], id2[2])

HasId(d, p) == d.heap[p].person_id # None

\* both identifiers are known and belong to different Participants
Conflict(d, id1, id2) ==
    KnownId(d, id1) /\ KnownId(d, id2) /\ Owner(d, id1) # Owner(d, id2)

\* after a merge of the owners of id1 and id2: the Participant both identifiers
\* map to, and the other of the two
Survivor(d, r, id1, id2) == Owner(r, id1)
Loser(d, r, id1, id2) ==
    IF Owner(r, id1) = Owner(d, id1) THEN Owner(d, id2) ELSE Owner(d, id1)

\* the index entries that point at a Participant
RefsTo(d, p) == { k \in Keys(d) : Owner(d, k) = p }

----------------------------------------------------------------------------
(* C1 *)

\* C1: whatever the state and the two identifiers, after identifies_same_person
\* both identifiers are in the index, map to the same Participant, and that
\* Participant is in people.
C1_SamePersonAfterAssert ==
    \A id1, id2 \in Idents :
        LET r == ISP(db, id1, id2)
        IN  /\ r.error = None
            /\ KnownId(r, id1) /\ KnownId(r, id2)
            /\ Owner(r, id1) = Owner(r, id2)
            /\ Owner(r, id1) \in r.people

\* an identifies_same_person call has just merged two Participants that were
\* created apart: they share a Participant of people that holds both
C1_Witness ==
    /\ op = "assert"
    /\ \E q \in 1..Len(db.heap) : q \notin db.people /\ IdentSet(db.heap[q]) = {}
    /\ \E id1, id2 \in Idents :
          /\ id1 # id2 /\ KnownId(db, id1) /\ KnownId(db, id2)
          /\ Owner(db, id1) = Owner(db, id2)
          /\ Owner(db, id1) \in db.people
          /\ {id1, id2} \subseteq IdentSet(db.heap[Owner(db, id1)])

----------------------------------------------------------------------------
(* C2 *)

\* C2: when both identifiers are known, belong to different Participants and
\* both Participants have a person_id, the one with fewer identifiers is merged
\* into the one with more, the second argument's surviving on a tie, and the
\* merged Participant holds replaced_by -> the survivor's person_id.
C2_FewerMergedIntoMore ==
    \A id1, id2 \in Idents :
        (Conflict(db, id1, id2) /\ HasId(db, Owner(db, id1)) /\ HasId(db, Owner(db, id2)))
        => LET p1 == Owner(db, id1)
               p2 == Owner(db, id2)
               r  == ISP(db, id1, id2)
               survivor == IF num_idents(db.heap[p1]) > num_idents(db.heap[p2])
                           THEN p1 ELSE p2
               merged   == IF survivor = p1 THEN p2 ELSE p1
           IN  /\ Owner(r, id1) = survivor
               /\ Owner(r, id2) = survivor
               /\ <<"replaced_by", r.heap[survivor].person_id>> \in IdentSet(r.heap[merged])

----------------------------------------------------------------------------
(* C3 *)

----------------------------------------------------------------------------
(* C4 *)

\* C4 as claimed: after any merge by identifies_same_person the merged-away
\* Participant is not in people and no index entry points at it.
C4_MergedAwayRemoved ==
    \A id1, id2 \in Idents :
        Conflict(db, id1, id2)
        => LET r == ISP(db, id1, id2)
               merged == Loser(db, r, id1, id2)
           IN  merged \notin r.people /\ RefsTo(r, merged) = {}

\* C4 as amended: after any merge no index entry points at the merged-away
\* Participant; it has left people when it had no person_id, and when both
\* Participants had a person_id it stays in people holding nothing but
\* replaced_by -> the survivor's person_id.
C4_MergedAwayUnreferenced ==
    \A id1, id2 \in Idents :
        Conflict(db, id1, id2)
        => LET r == ISP(db, id1, id2)
               merged   == Loser(db, r, id1, id2)
               survivor == Survivor(db, r, id1, id2)
           IN  /\ survivor \in {Owner(db, id1), Owner(db, id2)}
               /\ Owner(r, id2) = survivor
               /\ RefsTo(r, merged) = {}
               /\ ~HasId(db, merged) => merged \notin r.people
               /\ HasId(db, merged) =>
                     /\ HasId(db, survivor)
                     /\ merged \in r.people
                     /\ IdentSet(r.heap[merged]) =
                            { <<"replaced_by", r.heap[survivor].person_id>> }

\* a merge of two Participants that both have a person_id has just happened:
\* one of them is still in people, owns no index entry and holds only its
\* replaced_by identifier, which names another Participant of people
C4_Witness ==
    /\ op = "assert"
    /\ \E p, q \in db.people :
          /\ p # q /\ HasId(db, p) /\ HasId(db, q)
          /\ RefsTo(db, p) = {}
          /\ IdentSet(db.heap[p]) = { <<"replaced_by", db.heap[q].person_id>> }
          /\ Cardinality(RefsTo(db, q)) >= 2
    /\ \E q \in 1..Len(db.heap) : q \notin db.people

----------------------------------------------------------------------------
(* C5 *)

\* the index by stable id: the person_id each key maps to
IndexById(d) == { <<k, d.heap[Owner(d, k)].person_id>> : k \in Keys(d) }

\* the identifiers each person_id holds, replaced_by identifiers included
RecordsById(d) == { <<d.heap[p].person_id, IdentSet(d.heap[p])>> : p \in d.people }

\* C5: saving any reachable resolver and loading the record gives a resolver
\* with the same index (the same keys, each mapping to the same person_id) and
\* the same records, tombstones included.
C5_RoundTrip ==
    \A order \in Perms(db.people) :
        LET s == save(db, order)
            l == load(s.people)
        IN  /\ IndexById(l) = IndexById(s.db)
            /\ RecordsById(l) = RecordsById(s.db)

----------------------------------------------------------------------------
(* C6 *)

\* the identifier groups held by the Participants of people
Groups(d) == { IdentSet(d.heap[p]) : p \in d.people }

\* the identifier groups held by the Participants the index points at
OwnedGroups(d) == { IdentSet(d.heap[Owner(d, k)]) : k \in Keys(d) }

\* which keys of the index share a Participant
CoOwned(d) == { RefsTo(d, Owner(d, k)) : k \in Keys(d) }

\* C6 as claimed: identifies_same_person(id1, id2) and (id2, id1) from the same
\* state leave the same groups of identifiers on the Participants of people
\* and the same co-ownership in the index.
C6_SymmetricGroups ==
    \A id1, id2 \in Idents :
        LET a == ISP(db, id1, id2)
            b == ISP(db, id2, id1)
        IN  Groups(a) = Groups(b) /\ CoOwned(a) = CoOwned(b)

\* C6 as amended: the two argument orders leave the same co-ownership in the
\* index and the same groups of identifiers on the Participants the index
\* points at; the groups of all Participants of people agree as well unless
\* both owners had a person_id and as many identifiers as each other, where
\* the replaced_by record is left on a different Participant.
C6_SymmetricPartition ==
    \A id1, id2 \in Idents :
        LET a == ISP(db, id1, id2)
            b == ISP(db, id2, id1)
            tie == /\ Conflict(db, id1, id2)
                   /\ HasId(db, Owner(db, id1)) /\ HasId(db, Owner(db, id2))
                   /\ num_idents(db.heap[Owner(db, id1)]) = num_idents(db.heap[Owner(db, id2)])
        IN  /\ CoOwned(a) = CoOwned(b)
            /\ Keys(a) = Keys(b)
            /\ OwnedGroups(a) = OwnedGroups(b)
            /\ ~tie => Groups(a) = Groups(b)

\* a merge has just been made whose outcome depends on the argument order
\* only in the Participant that survives: two Participants with a person_id
\* and as many identifiers as each other were merged, one now holding both
\* groups and the other its replaced_by record
C6_Witness ==
    /\ op = "assert"
    /\ \E p, q \in db.people :
          /\ p # q /\ HasId(db, p) /\ HasId(db, q)
          /\ RefsTo(db, p) = {}
          /\ IdentSet(db.heap[p]) = { <<"replaced_by", db.heap[q].person_id>> }
          /\ Cardinality(IdentSet(db.heap[q])) = 2
          /\ RefsTo(db, q) = IdentSet(db.heap[q])

----------------------------------------------------------------------------
(* C7 *)

\* every identifier held by a Participant of people
Held(d) == UNION Groups(d)

\* every identifier the resolver refers to
Referenced(d) == Keys(d) \cup Held(d)

\* C7 as claimed: identifies_same_person on two known identifiers leaves the
\* set of identifiers the resolver refers to (index keys and identifiers held
\* by the Participants of people) as it was.
C7_IdentifiersConserved ==
    \A id1, id2 \in Idents :
        (KnownId(db, id1) /\ KnownId(db, id2))
        => Referenced(ISP(db, id1, id2)) = Referenced(db)

\* C7 as amended: identifies_same_person on two known identifiers leaves the
\* keys of the index as they were and loses no identifier held by the
\* Participants of people; the only identifier it can add is the replaced_by
\* record of a merge of two Participants that both have a person_id, which
\* names the survivor.
C7_NothingLost ==
    \A id1, id2 \in Idents :
        (KnownId(db, id1) /\ KnownId(db, id2))
        => LET r == ISP(db, id1, id2)
               bothStable == /\ Conflict(db, id1, id2)
                             /\ HasId(db, Owner(db, id1)) /\ HasId(db, Owner(db, id2))
           IN  /\ Keys(r) = Keys(db)
               /\ Held(db) \subseteq Held(r)
               /\ Held(r) \ Held(db) \subseteq
                     IF bothStable
                     THEN { <<"replaced_by", r.heap[Owner(r, id1)].person_id>> }
                     ELSE {}

\* a merge of known identifiers has just regrouped them: a Participant has
\* been emptied and dropped, and one Participant of people holds at least
\* three identifiers, all of them keys of the index that point at it
C7_Witness ==
    /\ op = "assert"
    /\ \E q \in 1..Len(db.heap) : q \notin db.people /\ IdentSet(db.heap[q]) = {}
    /\ \E p \in db.people :
          /\ Cardinality(IdentSet(db.heap[p])) >= 3
          /\ IdentSet(db.heap[p]) = RefsTo(db, p)

----------------------------------------------------------------------------
(* C8 *)

PWI(d, id) == person_with_identifier(d, id[1], id[2])

\* C8: person_with_identifier called twice in a row with the same arguments
\* returns the same Participant both times, and the second call changes
\* nothing (index, people, every Participant's identifiers).
C8_ResolveIdempotent ==
    \A id \in Idents :
        LET first  == PWI(db, id)
            second == PWI(first.db, id)
        IN  /\ second.ret = first.ret
            /\ second.db = first.db
            /\ first.ret \in first.db.people
            /\ id \in IdentSet(first.db.heap[first.ret])

\* person_with_identifier has just created a Participant for an identifier,
\* next to Participants of people that already existed
C8_Witness ==
    /\ op = "resolve"
    /\ Cardinality(db.people) >= 2
    /\ \E id \in Idents :
          /\ KnownId(db, id)
          /\ Owner(db, id) = Len(db.heap)
          /\ IdentSet(db.heap[Owner(db, id)]) = {id}
          /\ ~HasId(db, Owner(db, id))

----------------------------------------------------------------------------
(* C9 *)

\* the person_ids of the Participants created so far in this run
StableIds(d) == { d.heap[p].person_id : p \in { q \in 1..Len(d.heap) : HasId(d, q) } }

\* no two Participants of the heap have the same person_id, and none has one
\* beyond the counter
UniqueIds(d) ==
    \A p, q \in 1..Len(d.heap) :
        HasId(d, p) =>
            /\ (p # q => d.heap[p].person_id # d.heap[q].person_id)
            /\ ParsePid(d.heap[p].person_id) \in 1..d.pid
            /\ FormatPid(ParsePid(d.heap[p].person_id)) = d.heap[p].person_id

\* one step: within a run a person_id, once set, stays; a load brings back
\* exactly the person_ids of the run that saved; the counter never decreases
C9_Step ==
    /\ op' # "load" =>
          /\ Len(db'.heap) >= Len(db.heap)
          /\ \A p \in 1..Len(db.heap) :
                HasId(db, p) => db'.heap[p].person_id = db.heap[p].person_id
    /\ op' = "load" => StableIds(db') = StableIds(db)
    /\ db'.pid >= db.pid

\* C9: over load, person_with_identifier, identifies_same_person and save, a
\* Participant's person_id never changes once set, and no two Participants
\* ever hold the same person_id: ids in use are distinct and at most the
\* counter, which never decreases, so later ids are new.
C9_StableIdsAssignedOnce == []UniqueIds(db) /\ [][C9_Step]_vars

\* a save has just given a new person_id in a run that started with a load:
\* the index has a replaced_by key no caller passes, which only the load of a
\* tombstone enters; a Participant created in this run has been merged away;
\* and a Participant created after it holds the id of the counter
C9_Witness ==
    /\ op = "save"
    /\ db.pid = MaxPid
    /\ \E k \in Keys(db) : k[1] = "replaced_by" /\ k \notin Idents
    /\ \E q \in 1..Len(db.heap) :
          /\ q < Len(db.heap) /\ q \notin db.people /\ ~HasId(db, q)
    /\ db.heap[Len(db.heap)].person_id = FormatPid(db.pid)
    /\ db.heap[1].person_id = FormatPid(1)

----------------------------------------------------------------------------
(* C10 *)

\* one step of person_with_identifier or identifies_same_person removes no
\* Participant that has a person_id from people, and a load brings back every
\* person_id that was saved
C10_Step ==
    /\ op' \in {"resolve", "assert"} =>
          \A p \in db.people :
              HasId(db, p) => p \in db'.people /\ db'.heap[p].person_id = db.heap[p].person_id
    /\ op' = "load" =>
          \A p \in db.people :
              \E q \in db'.people : db'.heap[q].person_id = db.heap[p].person_id

\* every person_id of the run is held by a Participant of people, and is a key
\* of the record save writes, whatever the order save visits people in
C10_Saved ==
    /\ \A p \in 1..Len(db.heap) : HasId(db, p) => p \in db.people
    /\ \A order \in Perms(db.people) :
          StableIds(db) \subseteq DOMAIN save(db, order).people

\* C10: a Participant with a person_id is never removed from people by
\* person_with_identifier or identifies_same_person, so every person_id loaded
\* or assigned is a key of every record saved later.
C10_PublishedNeverDeleted == []C10_Saved /\ [][C10_Step]_vars

\* identifies_same_person has just merged away a Participant with a person_id
\* in a run that also dropped one without: the first is still in people
C10_Witness ==
    /\ op = "assert"
    /\ Cardinality(StableIds(db)) >= 2
    /\ \E p \in db.people :
          /\ HasId(db, p) /\ RefsTo(db, p) = {}
          /\ DOMAIN db.heap[p].identifiers = {"replaced_by"}
    /\ \E q \in 1..Len(db.heap) : q \notin db.people /\ ~HasId(db, q)

----------------------------------------------------------------------------
(* C11 *)

\* C11: the record save writes (person_id -> identifier lists per type) does
\* not depend on the order in which save visits people, so two runs that load
\* the same record and make the same calls save identical records.
C11_DeterministicSave ==
    \A o1, o2 \in Perms(db.people) : save(db, o1).people = save(db, o2).people

----------------------------------------------------------------------------
(* C12 *)

\* the command line gives the same path for old.json and new.json
SamePaths == Len(proc.argv) = 3 /\ Path(proc.argv[2]) = Path(proc.argv[3])

\* C12: when the load path and the save path are the same, the program ends
\* at once with status 2, no resolver constructed and no call made; status 2 is
\* the status of no other ending (usage error, uncaught exception, normal end).
C12_SamePathRejected ==
    /\ (SamePaths /\ proc.pc # "start") =>
          /\ proc.pc = "exited"
          /\ proc.status = SamePathStatus
          /\ db = EmptyDB
          /\ op = "init"
    /\ (proc.pc = "exited" /\ ~SamePaths) =>
          /\ proc.status # SamePathStatus
          /\ proc.status \in {UsageStatus, UncaughtStatus, EndStatus}
    /\ (proc.pc = "exited" /\ Len(proc.argv) \notin {2, 3}) => proc.status = UsageStatus

\* the program has refused two spellings of one path, with a record in that
\* file that the resolver would have loaded
C12_Witness ==
    /\ proc.pc = "exited"
    /\ proc.status = SamePathStatus
    /\ Len(proc.argv) = 3
    /\ proc.argv[2] # proc.argv[3]
    /\ proc.old.exists

----------------------------------------------------------------------------
(* C13 *)

\* the identifiers two different Participants of people both hold
Shared(d) ==
    UNION { IdentSet(d.heap[pq[1]]) \cap IdentSet(d.heap[pq[2]]) :
            pq \in { x \in d.people \X d.people : x[1] # x[2] } }

\* C13 as claimed: no identifier, replaced_by identifiers included, is held by
\* two different Participants of people.
C13_NoDuplicateOwnership == Shared(db) = {}

\* C13 as amended: no identifier other than a replaced_by identifier is held
\* by two different Participants of people, and every index key other than a
\* replaced_by key is held by its owner alone; a replaced_by identifier can be
\* held by several.
C13_OnlyReplacedByShared ==
    /\ \A k \in Shared(db) : k[1] = "replaced_by"
    /\ \A k \in Keys(db) :
          k[1] # "replaced_by" =>
              { p \in db.people : k \in IdentSet(db.heap[p]) } = {Owner(db, k)}

\* two Participants of people hold the same replaced_by identifier, one of
\* them next to identifiers of other types that only it holds
C13_Witness ==
    \E p, q \in db.people :
        /\ p # q
        /\ \E k \in IdentSet(db.heap[p]) \cap IdentSet(db.heap[q]) : k[1] = "replaced_by"
        /\ \E k \in IdentSet(db.heap[p]) \ IdentSet(db.heap[q]) : k[1] # "replaced_by"

----------------------------------------------------------------------------
(* C14 *)

\* C14: between operations every Participant an index entry refers to is in
\* people.
C14_NoDanglingOwner ==
    \A k \in Keys(db) : Owner(db, k) \in 1..Len(db.heap) /\ Owner(db, k) \in db.people

\* a merge has just dropped a Participant from people while the index refers
\* to two others
C14_Witness ==
    /\ op = "assert"
    /\ \E q \in 1..Len(db.heap) : q \notin db.people
    /\ Cardinality({ Owner(db, k) : k \in Keys(db) }) >= 2
    /\ Keys(db) = Idents

----------------------------------------------------------------------------
(* C15 *)

\* C15: when both identifiers are known and belong to different Participants
\* without a person_id, the second one's is merged into the first one's: the
\* first holds the identifiers of both, the index entries of the second point
\* at the first, the second has left people, and people is one smaller.
C15_SecondMergedIntoFirst ==
    \A id1, id2 \in Idents :
        (Conflict(db, id1, id2) /\ ~HasId(db, Owner(db, id1)) /\ ~HasId(db, Owner(db, id2)))
        => LET p1 == Owner(db, id1)
               p2 == Owner(db, id2)
               r  == ISP(db, id1, id2)
           IN  /\ IdentSet(r.heap[p1]) = IdentSet(db.heap[p1]) \cup IdentSet(db.heap[p2])
               /\ RefsTo(r, p1) = RefsTo(db, p1) \cup RefsTo(db, p2)
               /\ RefsTo(r, p2) = {}
               /\ r.people = db.people \ {p2}
               /\ p1 \in r.people
               /\ Cardinality(r.people) = Cardinality(db.people) - 1
               /\ ~HasId(r, p1)

\* the second of two Participants without a person_id has just been merged
\* into the first: the older one holds two identifiers, the younger is empty
\* and out of people, and no person_id has been given out yet
C15_Witness ==
    /\ op = "assert"
    /\ db.pid = 0
    /\ Len(db.heap) = 2
    /\ db.people = {1}
    /\ Cardinality(IdentSet(db.heap[1])) = 2
    /\ IdentSet(db.heap[2]) = {}
    /\ RefsTo(db, 1) = IdentSet(db.heap[1])

----------------------------------------------------------------------------
(* C16 *)

MaxOf(S) == IF S = {} THEN 0 ELSE CHOOSE x \in S : \A y \in S : y <= x

\* the numeric suffixes of the person_ids in use
Suffixes(d) == { ParsePid(i) : i \in StableIds(d) }

\* the Participants of an iteration order that have no person_id, in order
NewInOrder(d, order) == SelectSeq(order, LAMBDA p : ~HasId(d, p))

\* C16: after a load the counter is the greatest suffix of the record, in
\* every state it is the greatest suffix assigned so far, and a save gives the Participants without a person_id the suffixes counter + 1,
\* counter + 2, ... in the order it visits them, leaving the counter at the
\* last one, so that the next save goes on from there.
C16_SequentialIds ==
    /\ op = "load" =>
          /\ Unassigned(db) = {}
          /\ db.pid = MaxOf({ ParsePid(db.heap[p].person_id) : p \in db.people })
    /\ db.pid = MaxOf(Suffixes(db))
    /\ \A order \in Perms(db.people) :
          LET s   == save(db, order)
              new == NewInOrder(db, order)
          IN  /\ \A i \in 1..Len(new) :
                    /\ s.db.heap[new[i]].person_id = FormatPid(db.pid + i)
                    /\ ParsePid(s.db.heap[new[i]].person_id) = db.pid + i
              /\ s.db.pid = db.pid + Len(new)
              /\ \A p \in db.people :
                    HasId(db, p) => s.db.heap[p].person_id = db.heap[p].person_id

\* a record with greatest suffix 2 has been loaded and a Participant has been
\* created since, which the next save will give a person_id
C16_Witness ==
    /\ op = "resolve"
    /\ db.pid = 2
    /\ Len(db.heap) = 3
    /\ db.heap[1].person_id = FormatPid(1)
    /\ db.heap[2].person_id = FormatPid(2)
    /\ Unassigned(db) = {3}
    /\ \E k \in Keys(db) : k[1] = "replaced_by" /\ k \notin Idents

----------------------------------------------------------------------------
(* C17 *)

\* the Participant of people with a given person_id
ById(d, pid) == CHOOSE p \in d.people : d.heap[p].person_id = pid

\* no single call on resolver d changes the identifiers Participant p holds
Untouched(d, p) ==
    /\ \A a \in Idents : IdentSet(PWI(d, a).db.heap[p]) = IdentSet(d.heap[p])
    /\ \A a, b \in Idents : IdentSet(ISP(d, a, b).heap[p]) = IdentSet(d.heap[p])
    /\ \A o \in Perms(d.people) : IdentSet(save(d, o).db.heap[p]) = IdentSet(d.heap[p])

\* C17: the Participant a merge has just merged away holds nothing, or only
\* its replaced_by tombstone; no following call (person_with_identifier,
\* identifies_same_person, save) changes what it holds, and when the record is
\* saved and loaded, the Participant loaded for its person_id holds the same
\* and no call on the loaded resolver changes that either.
C17_MergedAwayTerminal ==
    \A id1, id2 \in Idents :
        Conflict(db, id1, id2) =>
            LET r    == ISP(db, id1, id2)
                S    == Survivor(db, r, id1, id2)
                L    == Loser(db, r, id1, id2)
                held == IdentSet(r.heap[L])
            IN  /\ held \in {{}, {<<"replaced_by", r.heap[S].person_id>>}}
                /\ Untouched(r, L)
                /\ L \in r.people =>
                      \A o \in Perms(r.people) :
                          LET s  == save(r, o)
                              c  == load(s.people)
                              L2 == ById(c, s.db.heap[L].person_id)
                          IN  /\ IdentSet(c.heap[L2]) = held
                              /\ Untouched(c, L2)

----------------------------------------------------------------------------
(* C18 *)

\* C18: no reachable resolver has failed, and no call on it fails:
\* identifies_same_person with any two identifiers reaches neither
\* RuntimeError nor a KeyError in self.people.remove, and
\* person_with_identifier returns a Participant of people that holds the
\* identifier (add_identifier has stored it).
C18_NoFatalError ==
    /\ db.error = None
    /\ \A id1, id2 \in Idents : ISP(db, id1, id2).error = None
    /\ \A id \in Idents :
          LET r == PWI(db, id)
          IN  /\ r.db.error = None
              /\ r.ret \in r.db.people
              /\ id \in IdentSet(r.db.heap[r.ret])

\* a record has been loaded, and since then a Participant created in this run
\* has been merged into a loaded one and removed from people
C18_Witness ==
    /\ op = "assert"
    /\ db.error = None
    /\ \E k \in Keys(db) : k[1] = "replaced_by" /\ k \notin Idents
    /\ \E p \in 1..Len(db.heap) :
          /\ p \notin db.people
          /\ IdentSet(db.heap[p]) = {}
          /\ \E q \in db.people : q < p /\ HasId(db, q) /\ Cardinality(IdentSet(db.heap[q])) >= 2

----------------------------------------------------------------------------
(* C19 *)

\* two index keys map to the same Participant
SameOwner(d, k1, k2) == Owner(d, k1) = Owner(d, k2)

\* one person_with_identifier or identifies_same_person call keeps every index
\* key, and keeps together every two keys that mapped to the same Participant
C19_Step ==
    op' \in {"resolve", "assert"} =>
        /\ Keys(db) \subseteq Keys(db')
        /\ \A k1, k2 \in Keys(db) :
              SameOwner(db, k1, k2) => SameOwner(db', k1, k2)

\* C19: along every run, each person_with_identifier and
\* identifies_same_person call keeps all index keys and keeps every two keys
\* of one Participant on one Participant (the same or another), so over any
\* sequence of such calls no key leaves the index and no group is split.
C19_CoReferencePermanent == [][C19_Step]_vars

\* two Participants have been merged and the four identifiers, the keys of the
\* merged-away one among them, all map to the one that is left
C19_Witness ==
    /\ op = "assert"
    /\ db.pid = 0
    /\ Len(db.heap) = 2
    /\ Cardinality(db.people) = 1
    /\ Keys(db) = Idents
    /\ \A k \in Keys(db) : Owner(db, k) \in db.people
    /\ \E p \in db.people : IdentSet(db.heap[p]) = Idents

----------------------------------------------------------------------------
(* C20 *)

\* the record save writes lists identifier k under person_id pid
Listed(people, pid, k) ==
    /\ pid \in DOMAIN people
    /\ k[1] \in DOMAIN people[pid]
    /\ InList(k[2], people[pid][k[1]])

\* C20: every index key is among the identifiers of the Participant the index
\* gives for it, and whatever order save visits people in, the record it
\* writes under that Participant's person_id lists the key.
C20_IndexAgreesWithRecords ==
    \A k \in Keys(db) :
        /\ k \in IdentSet(db.heap[Owner(db, k)])
        /\ \A order \in Perms(db.people) :
              LET s == save(db, order)
              IN  Listed(s.people, s.db.heap[Owner(db, k)].person_id, k)

\* no record was loaded or saved; three Participants were created, one was
\* merged into another and dropped, and the index shares the four identifiers
\* between the two that are left
C20_Witness ==
    /\ op = "assert"
    /\ db.pid = 0
    /\ Len(db.heap) = 3
    /\ Cardinality(db.people) = 2
    /\ Keys(db) = Idents
    /\ \A p \in db.people : RefsTo(db, p) # {} /\ RefsTo(db, p) = IdentSet(db.heap[p])
    /\ \E p \in db.people : Cardinality(RefsTo(db, p)) = 3

====
